---- MODULE Spec2Model ----
(***************************************************************************)
(* Push-to-talk dictation: the hotkey sources (pynput combination hook,    *)
(* macOS fn-key polling), the asyncio event loop that hosts the per-binding *)
(* loops, the dictate cycle with its volume duck/restore, and record_audio. *)
(*                                                                         *)
(* The asyncio event loop is modelled by its FIFO queue of ready callbacks *)
(* (`ready`): loop.call_soon_threadsafe appends a callback, a task that    *)
(* yields with sleep(0) or whose awaited future completes is appended, and *)
(* one loop step pops the head and runs it up to its next suspension.      *)
(* Listener threads and the completion of external calls (osascript        *)
(* subprocesses, the logging executor, the clipboard) interleave freely    *)
(* with loop steps.                                                        *)
(***************************************************************************)
EXTENDS Integers, Sequences, FiniteSets, TLC

\* ------------------------------------------------------------------ bounds
\* Gestures (activations) the user makes per binding.
MaxGestures == 2
\* Gestures per binding when two bindings are registered.
MaxGesturesTwo == 1
\* Chunks one capture loop reads at most (the user releases before that).
MaxChunks == 17
\* Transitions of one binding posted by its listener and not yet applied.
MaxPending == 2
\* Saturation of the observation counter readsAfterRel.
LatencyCap == 3
\* Byte lengths on either side of the threshold given to the length test.
MaxLenSpan == 60

\* ------------------------------------------------------- program constants
SAMPLE_RATE == 16000
SAMPLE_WIDTH == 2
FramesPerBuffer == 1024
Channels == 1
MinSeconds == 1
MutedVolume == 0
VolumeFloor == 0
VolumeCeil == 100

\* "no value" (Python None) for an integer-valued slot
None == 0 - 1

\* volumes the Music app may have when the program starts
InitVolumes == {40}

\* ------------------------------------------------------------ configuration
Bindings == {"k1", "k2", "k3", "fn"}
Combos == {"k1", "k2", "k3"}
\* listen_for_hotkeys: a mapping with one combination or with the fn key
\* (app.py registers cfg.hotkey alone), or with two combinations
Configs == {{"k1"}, {"fn"}}
TwoConfigs == {{"k2", "k3"}}
\* the canonical key set of each combination hotkey
Keys(b) == IF b = "k1" THEN {"ctrl", "alt"}
           ELSE IF b = "k2" THEN {"cmd"}
           ELSE IF b = "k3" THEN {"f9"} ELSE {}
AllKeys == {"ctrl", "alt", "cmd", "f9"}

Cycles == 1..MaxGestures

VARIABLES
    config,        \* the bindings registered with listen_for_hotkeys
    hkState,       \* HotKey._state of each combination (keys currently down)
    activated,     \* AsyncHotKey._activated
    fnDown,        \* physical state of the fn key (CGEventSourceKeyState)
    lastState,     \* _polling_thread's last_state
    ready,         \* the event loop's FIFO of ready callbacks
    pressedEv,     \* _pressed_event of AsyncHotKey / AsyncFnHotKey
    releasedEv,    \* _released_event of AsyncHotKey / AsyncFnHotKey
    hPressed,      \* AsyncFnKeyHandler._pressed_event
    hReleased,     \* AsyncFnKeyHandler._released_event
    mpc,           \* position of each in_main_loop task
    dpc,           \* position of each binding's running dictate coroutine
    dexc,          \* exception pending while dictate's finally block runs
    cbres,         \* how the fn binding's callback_task finished
    ncyc,          \* number of dictate cycles each binding has started
    cyc,           \* per cycle: the closure of dictate and its restore_task
    frames,        \* record_audio's frames list (number of chunks)
    ioRes,         \* result of the osascript call a dictate coroutine awaits
    volume,        \* the Music app's sound volume
    alive,         \* asyncio.run has not been terminated by an exception
    faults,        \* whether external calls may fail in this run
    take,          \* a sample buffer handed to record_audio's length test
    \* observations (no effect on the program)
    vol0,          \* the volume when the program started
    posts,         \* transitions each listener posted, 1 = press, 0 = release
    readsAfterRel  \* chunk reads completed since the last posted release

vars == <<config, take, hkState, activated, fnDown, lastState, ready, pressedEv,
          releasedEv, hPressed, hReleased, mpc, dpc, dexc, cbres, ncyc, cyc,
          frames, ioRes, volume, alive, faults, vol0, posts, readsAfterRel>>

listenerVars == <<hkState, activated, fnDown, lastState, posts>>
eventVars == <<pressedEv, releasedEv, hPressed, hReleased>>
dictVars == <<dpc, dexc, cbres, ncyc, cyc, frames, ioRes>>

\* ----------------------------------------------------------------- helpers
Item(kind, b, n) == <<kind, b, n>>
InQueue(q, it) == \E i \in 1..Len(q) : q[i] = it
Min(a, b) == IF a < b THEN a ELSE b
Max(a, b) == IF a > b THEN a ELSE b

PressPosts(b) == Len(SelectSeq(posts[b], LAMBDA x : x = 1))
GestureLimit == IF Cardinality(config) > 1 THEN MaxGesturesTwo ELSE MaxGestures
LastPost(b) == IF posts[b] = <<>> THEN None ELSE posts[b][Len(posts[b])]

UnstartedCycle ==
    [mp |-> FALSE, ov |-> None, vr |-> FALSE, rpc |-> "none", rc |-> 0,
     muted |-> FALSE, ducked |-> FALSE, belowMin |-> FALSE, tr |-> "no", pasted |-> FALSE,
     qf |-> FALSE, res |-> "none", out |-> "unstarted"]
\* dictate entered: original_volume = None, no restore_task yet
NewCycle == [UnstartedCycle EXCEPT !.out = "running"]
\* the frame of a finished dictate call whose restore_task is done is freed
\* when the binding's next cycle starts
RetiredCycle == [UnstartedCycle EXCEPT !.out = "retired"]
Freeable(c) == c.out \in {"ok", "rejected", "failed"} /\ c.rpc \in {"none", "done"}
\* the cycle records of binding b once cycle k + 1 starts; cNow is the record
\* of cycle k at that moment
StartNext(cs, k, cNow) ==
    [j \in DOMAIN cs |->
        IF j = k + 1 THEN NewCycle
        ELSE LET c == IF j = k THEN cNow ELSE cs[j]
             IN IF j <= k /\ Freeable(c) THEN RetiredCycle ELSE c]

\* ----------------------------------------------------- pure program pieces
\* audio.py: bytes appended per stream.read(frames_per_buffer), paInt16 mono
ChunkBytes == FramesPerBuffer * SAMPLE_WIDTH * Channels

\* infer_time(samples) = len / sample_rate / sample_width, as a fraction
InferTimeNum(len) == len
InferTimeDen == SAMPLE_RATE * SAMPLE_WIDTH

\* record_audio: `if infer_time(samples) > 1.0` (return the buffer)
LongEnoughHalf(len) == 2 * InferTimeNum(len) > MinSeconds * InferTimeDen
LongEnough(len) == InferTimeNum(len) > MinSeconds * InferTimeDen

\* observation: the recording lasts less than 1.0 s (bytes / rate / width)
DurationBelowMin(len) == len < MinSeconds * SAMPLE_RATE * SAMPLE_WIDTH

\* set_music_app_volume: max(0, min(100, int(volume)))
ClampVolume(v) == Max(VolumeFloor, Min(VolumeCeil, v))

\* is_music_app_running / is_music_playing: `return result == "true"`, where
\* the osascript output is 1 for "true", 0 for "false" and None on failure
IsNotFalse(r) == r # 0
IsTrue(r) == r = 1

\* dictate: `if music_playing:` (save the volume and mute)
ShouldDuckAlways(mp) == TRUE
ShouldDuck(mp) == mp

\* dictate / on_key_released:
\* `if music_playing and original_volume is not None and not volume_restored`
ShouldRestoreInverted(mp, ov, vr) == mp /\ ov # None /\ vr
ShouldRestore(mp, ov, vr) == mp /\ ov # None /\ ~vr

\* dictate: the statements after `text = await transcribe(wave)` run only
\* when the call returned
ProceedsAlways(ok) == TRUE
Proceeds(ok) == ok

\* in_main_loop: `except StopTask` (anything else leaves the loop)
CaughtNone(exc) == exc = "none"
Caught(exc) == exc \in {"none", "stop"}

\* `await <event>.wait()` at the top of a binding's loop: returns without
\* suspending exactly when the event is set
WaitReturnsAlways(ev) == TRUE
WaitReturnsAtOnce(ev) == ev

\* AsyncFnHotKey.in_main_loop: `await callback_task` lets the loop go on only
\* when the callback task is done
JoinedAlways(done) == TRUE
Joined(done) == done

\* AsyncHotKey.release: `if self._state != self._keys and self._activated`
ShouldDeactivateNoGuard(state, keys, act) == state # keys
ShouldDeactivate(state, keys, act) == state # keys /\ act

\* AsyncHotKey.__on_activate: `if not self._activated`
ShouldActivate(act) == ~act

\* _polling_thread: `if current_state != last_state`
EdgeAlways(cur, last) == TRUE
Edge(cur, last) == cur # last

\* ------------------------------------------------------------------- Init
InitBase(cfgs, flt) ==
    /\ config \in cfgs
    /\ faults = flt
    /\ hkState = [b \in Bindings |-> {}]
    /\ activated = [b \in Bindings |-> FALSE]
    /\ fnDown = FALSE
    /\ lastState = FALSE
    \* asyncio.gather schedules one in_main_loop task per binding
    /\ ready = IF config = {"k2", "k3"}
               THEN <<Item("main", "k2", 0), Item("main", "k3", 0)>>
               ELSE IF config = {"k1"} THEN <<Item("main", "k1", 0)>>
               ELSE <<Item("main", "fn", 0)>>
    /\ pressedEv = [b \in Bindings |-> FALSE]
    /\ releasedEv = [b \in Bindings |-> TRUE]
    /\ hPressed = FALSE
    /\ hReleased = TRUE
    /\ mpc = [b \in Bindings |-> IF b \in config THEN "top" ELSE "absent"]
    /\ dpc = [b \in Bindings |-> "idle"]
    /\ dexc = [b \in Bindings |-> "none"]
    /\ cbres = [b \in Bindings |-> "none"]
    /\ ncyc = [b \in Bindings |-> 0]
    /\ cyc = [b \in Bindings |-> [k \in Cycles |-> UnstartedCycle]]
    /\ frames = [b \in Bindings |-> 0]
    /\ ioRes = [b \in Bindings |-> None]
    /\ volume \in InitVolumes
    /\ alive = TRUE
    /\ vol0 = volume
    /\ posts = [b \in Bindings |-> <<>>]
    /\ readsAfterRel = [b \in Bindings |-> 0]

NoTake == [len |-> 0, verdict |-> "none"]
InitIn(cfgs, flt) == InitBase(cfgs, flt) /\ take = NoTake

\* ------------------------------------------------------- listener threads
Pending(b) ==
    Len(SelectSeq(ready, LAMBDA it :
            it[2] = b /\ it[1] \in {"latch", "fnchange", "fnlatch"}))

\* a listener thread hands a transition to the loop:
\* self._loop.call_soon_threadsafe(<callback>)
PostDirect(b, it, v) ==
    /\ posts' = [posts EXCEPT ![b] = Append(@, v)]
    /\ readsAfterRel' = [readsAfterRel EXCEPT ![b] = 0]
    /\ pressedEv' = [pressedEv EXCEPT ![b] = (v = 1)]
    /\ releasedEv' = [releasedEv EXCEPT ![b] = (v = 0)]
    /\ UNCHANGED <<ready, hPressed, hReleased>>
Post(b, it, v) ==
    /\ Pending(b) < MaxPending
    /\ ready' = Append(ready, it)
    /\ posts' = [posts EXCEPT ![b] = Append(@, v)]
    /\ readsAfterRel' = [readsAfterRel EXCEPT ![b] = 0]
    /\ UNCHANGED eventVars

\* pynput hook thread: GlobalHotKeys._on_press -> AsyncHotKey.press(key)
\*   HotKey.press: a key of the combination not yet down is added to _state
\*   and, when the combination is complete, __on_activate runs
HookPress(b, key) ==
    /\ alive /\ b \in config \cap Combos /\ key \in Keys(b)
    /\ PressPosts(b) < GestureLimit
    /\ LET st == hkState[b] \cup {key}
           fires == key \notin hkState[b] /\ st = Keys(b)
                    /\ ShouldActivate(activated[b])
       IN /\ hkState' = [hkState EXCEPT ![b] = st]
          /\ IF fires
             THEN /\ activated' = [activated EXCEPT ![b] = TRUE]
                  /\ Post(b, Item("latch", b, 1), 1)
             ELSE \* a key of an incomplete combination, or a repeated press
                  UNCHANGED <<activated, ready, posts, readsAfterRel, eventVars>>
    /\ UNCHANGED <<config, faults, take, fnDown, lastState, mpc, dictVars,
                   volume, alive, vol0>>

\* pynput hook thread: GlobalHotKeys._on_release -> AsyncHotKey.release(key)
HookRelease(b, key) ==
    /\ alive /\ b \in config \cap Combos /\ key \in Keys(b)
    /\ LET st == hkState[b] \ {key}
       IN /\ hkState' = [hkState EXCEPT ![b] = st]
          /\ IF ShouldDeactivate(st, Keys(b), activated[b])
             THEN /\ activated' = [activated EXCEPT ![b] = FALSE]
                  /\ Post(b, Item("latch", b, 0), 0)
             ELSE \* released while the combination is not active
                  UNCHANGED <<activated, ready, posts, readsAfterRel, eventVars>>
    /\ UNCHANGED <<config, faults, take, fnDown, lastState, mpc, dictVars,
                   volume, alive, vol0>>

\* the user presses or lets go of the fn key
FnKeyToggle ==
    /\ alive /\ "fn" \in config
    /\ ~fnDown => PressPosts("fn") < GestureLimit
    /\ fnDown' = ~fnDown
    /\ UNCHANGED <<config, faults, take, hkState, activated, lastState, posts,
                   ready, eventVars, mpc, dictVars, volume, alive, vol0,
                   readsAfterRel>>

\* MacFnKeyHandler._polling_thread, one iteration
Poll ==
    /\ alive /\ "fn" \in config
    /\ LET cur == fnDown
           v == IF cur THEN 1 ELSE 0
       IN IF Edge(cur, lastState)
          THEN /\ lastState' = cur
               /\ Post("fn", Item("fnchange", "fn", v), v)
          ELSE \* no edge: nothing is posted
               UNCHANGED <<lastState, ready, posts, readsAfterRel, eventVars>>
    /\ UNCHANGED <<config, faults, take, hkState, activated, fnDown, mpc,
                   dictVars, volume, alive, vol0>>

\* ------------------------------------------------------ event-loop helpers
Running(kind, b, n) == alive /\ ready # <<>> /\ Head(ready) = Item(kind, b, n)

\* asyncio.Event.set() on _released_event: the restore tasks suspended in
\* key_released.wait() are made ready, oldest first
RECURSIVE WakeFrom(_, _, _)
WakeFrom(b, q, k) ==
    IF k > MaxGestures THEN q
    ELSE WakeFrom(b,
                  IF cyc[b][k].rpc = "wait" /\ ~InQueue(q, Item("rt", b, k))
                  THEN Append(q, Item("rt", b, k)) ELSE q,
                  k + 1)
WakeRts(b, q) == WakeFrom(b, q, 1)

\* the task suspended in `await <event>.wait()` is made ready by set()
WakeMain(b, at, q) ==
    IF mpc[b] = at /\ ~InQueue(q, Item("main", b, 0))
    THEN Append(q, Item("main", b, 0)) ELSE q

Outcome(exc) == IF exc = "none" THEN "ok"
                ELSE IF exc = "stop" THEN "rejected" ELSE "failed"

\* ----------------------------------------------- latch callbacks (combo)
\* the lambdas posted by __on_activate / __on_deactivate
ApplyLatch(b, v) ==
    /\ Running("latch", b, v)
    /\ IF v = 1
       THEN /\ pressedEv' = [pressedEv EXCEPT ![b] = TRUE]
            /\ releasedEv' = [releasedEv EXCEPT ![b] = FALSE]
            /\ ready' = IF pressedEv[b] THEN Tail(ready)
                        ELSE WakeMain(b, "wait_press", Tail(ready))
       ELSE /\ pressedEv' = [pressedEv EXCEPT ![b] = FALSE]
            /\ releasedEv' = [releasedEv EXCEPT ![b] = TRUE]
            /\ ready' = IF releasedEv[b] THEN Tail(ready)
                        ELSE WakeRts(b, Tail(ready))
    /\ UNCHANGED <<config, faults, take, listenerVars, hPressed, hReleased, mpc, dictVars,
                   volume, alive, vol0, readsAfterRel>>

\* ------------------------------------------------- fn handler callbacks
\* AsyncFnKeyHandler._on_fn_key_change, run by the loop: posts the lambda
FnChange(v) ==
    /\ Running("fnchange", "fn", v)
    /\ ready' = Append(Tail(ready), Item("fnlatch", "fn", v))
    /\ UNCHANGED <<config, faults, take, listenerVars, eventVars, mpc, dictVars, volume,
                   alive, vol0, readsAfterRel>>

\* the lambda of _on_fn_key_change
FnLatch(v) ==
    /\ Running("fnlatch", "fn", v)
    /\ IF v = 1
       THEN /\ hPressed' = TRUE
            /\ hReleased' = FALSE
            /\ ready' = IF hPressed THEN Tail(ready)
                        ELSE WakeMain("fn", "wait_press", Tail(ready))
       ELSE /\ hPressed' = FALSE
            /\ hReleased' = TRUE
            /\ ready' = IF hReleased THEN Tail(ready)
                        ELSE WakeMain("fn", "wait_rel", Tail(ready))
    /\ UNCHANGED <<config, faults, take, listenerVars, pressedEv, releasedEv, mpc, dictVars,
                   volume, alive, vol0, readsAfterRel>>

\* --------------------------------------------- AsyncHotKey.in_main_loop
\* One step of the loop task while it is not inside the callback: at the top
\* of the loop or woken from `await self._pressed_event.wait()`.  wait()
\* returns once woken, whatever the event's value is by then.
MainCombo(b) ==
    /\ Running("main", b, 0) /\ b \in Combos
    /\ IF mpc[b] = "top" /\ ~WaitReturnsAtOnce(pressedEv[b])
       THEN /\ mpc' = [mpc EXCEPT ![b] = "wait_press"]
            /\ ready' = Tail(ready)
            /\ UNCHANGED <<releasedEv, dictVars>>
       ELSE \* self._released_event.clear(); dictate(...) up to its first await
            /\ ncyc[b] < GestureLimit
            /\ mpc' = [mpc EXCEPT ![b] = "in_cb"]
            /\ releasedEv' = [releasedEv EXCEPT ![b] = FALSE]
            /\ ncyc' = [ncyc EXCEPT ![b] = @ + 1]
            /\ cyc' = [cyc EXCEPT ![b] = StartNext(@, ncyc[b], @[Max(ncyc[b], 1)])]
            /\ dpc' = [dpc EXCEPT ![b] = "q_running"]
            /\ ready' = Tail(ready)
            /\ UNCHANGED <<dexc, cbres, frames, ioRes>>
    /\ UNCHANGED <<config, faults, take, listenerVars, pressedEv, hPressed, hReleased,
                   volume, alive, vol0, readsAfterRel>>

\* ------------------------------------------- AsyncFnHotKey.in_main_loop
\* One step of the loop task, from where it was suspended to its next
\* suspension: [set released; join callback_task;] [loop top;] [start the
\* callback task; wait_for_release]
MainFn ==
    /\ Running("main", "fn", 0)
    /\ LET b == "fn"
           rq == Tail(ready)
           fromRel == mpc[b] = "wait_rel"
           cbDone == Joined(dpc[b] = "idle")
           joins == mpc[b] = "wait_cb" \/ (fromRel /\ cbDone)
           dies == joins /\ ~Caught(cbres[b])
           atTop == mpc[b] = "top" \/ (joins /\ Caught(cbres[b]))
           starts == mpc[b] = "wait_press"
                     \/ (atTop /\ WaitReturnsAtOnce(hPressed))
           rqA == IF fromRel /\ ~releasedEv[b] THEN WakeRts(b, rq) ELSE rq
       IN IF starts
          THEN \* _pressed_event.set(); _released_event.clear();
               \* create_task(callback); await wait_for_release()
               /\ ncyc[b] < GestureLimit
               /\ ncyc' = [ncyc EXCEPT ![b] = @ + 1]
               /\ cyc' = [cyc EXCEPT ![b] = StartNext(@, ncyc[b], @[Max(ncyc[b], 1)])]
               /\ dpc' = [dpc EXCEPT ![b] = "start"]
               /\ IF WaitReturnsAtOnce(hReleased)
                  THEN /\ pressedEv' = [pressedEv EXCEPT ![b] = FALSE]
                       /\ releasedEv' = [releasedEv EXCEPT ![b] = TRUE]
                       /\ mpc' = [mpc EXCEPT ![b] = "wait_cb"]
                       /\ ready' = WakeRts(b, Append(rqA, Item("dict", b, 0)))
                  ELSE /\ pressedEv' = [pressedEv EXCEPT ![b] = TRUE]
                       /\ releasedEv' = [releasedEv EXCEPT ![b] = FALSE]
                       /\ mpc' = [mpc EXCEPT ![b] = "wait_rel"]
                       /\ ready' = Append(rqA, Item("dict", b, 0))
               /\ UNCHANGED <<alive, dexc, cbres, frames, ioRes>>
          ELSE /\ pressedEv' = [pressedEv EXCEPT ![b] = IF fromRel THEN FALSE ELSE @]
               /\ releasedEv' = [releasedEv EXCEPT ![b] = IF fromRel THEN TRUE ELSE @]
               /\ ready' = rqA
               /\ alive' = ~dies
               /\ mpc' = [mpc EXCEPT ![b] =
                            IF dies THEN "dead"
                            ELSE IF atTop THEN "wait_press" ELSE "wait_cb"]
               /\ UNCHANGED dictVars
    /\ UNCHANGED <<config, faults, take, listenerVars, hPressed, hReleased, volume, vol0,
                   readsAfterRel>>

\* ------------------------------------------------------------ dictate
\* what an external call may do in this run
Oks == IF faults THEN BOOLEAN ELSE {TRUE}
\* _run_osascript's answer to a yes/no query ("fail": None)
OsaResults == IF faults THEN {1, 0, None} ELSE {1, 0}

\* the coroutine goes on to its next suspension point
Cont(b, pc, c, fr, q) ==
    /\ dpc' = [dpc EXCEPT ![b] = pc]
    /\ cyc' = [cyc EXCEPT ![b][ncyc[b]] = c]
    /\ frames' = [frames EXCEPT ![b] = fr]
    /\ ready' = q
    /\ UNCHANGED <<mpc, alive, releasedEv, ncyc, cbres, dexc>>

\* dictate has returned or raised `exc`: back in the binding's loop.
\*   AsyncHotKey.in_main_loop: StopTask is caught and the loop goes to its
\*   top, where wait() returns at once when the press event is set; any other
\*   exception leaves the loop and ends asyncio.run.
\*   AsyncFnHotKey: the callback task is done; the loop task is woken if it
\*   is suspended in `await callback_task`.
Finish(b, exc, c, q) ==
    LET k == ncyc[b]
        cEnd == [c EXCEPT !.out = Outcome(exc)]
    IN /\ dexc' = [dexc EXCEPT ![b] = "none"]
       /\ frames' = [frames EXCEPT ![b] = 0]
       /\ IF b = "fn"
          THEN /\ dpc' = [dpc EXCEPT ![b] = "idle"]
               /\ cbres' = [cbres EXCEPT ![b] = exc]
               /\ cyc' = [cyc EXCEPT ![b][k] = cEnd]
               /\ ready' = WakeMain(b, "wait_cb", q)
               /\ UNCHANGED <<mpc, alive, releasedEv, ncyc>>
          ELSE IF ~Caught(exc)
          THEN /\ dpc' = [dpc EXCEPT ![b] = "idle"]
               /\ mpc' = [mpc EXCEPT ![b] = "dead"]
               /\ alive' = FALSE
               /\ cyc' = [cyc EXCEPT ![b][k] = cEnd]
               /\ ready' = q
               /\ UNCHANGED <<releasedEv, ncyc, cbres>>
          ELSE IF WaitReturnsAtOnce(pressedEv[b])
          THEN /\ k < GestureLimit
               /\ dpc' = [dpc EXCEPT ![b] = "q_running"]
               /\ releasedEv' = [releasedEv EXCEPT ![b] = FALSE]
               /\ ncyc' = [ncyc EXCEPT ![b] = k + 1]
               /\ cyc' = [cyc EXCEPT ![b] = StartNext(@, k, cEnd)]
               /\ ready' = q
               /\ UNCHANGED <<mpc, alive, cbres>>
          ELSE /\ dpc' = [dpc EXCEPT ![b] = "idle"]
               /\ mpc' = [mpc EXCEPT ![b] = "wait_press"]
               /\ cyc' = [cyc EXCEPT ![b][k] = cEnd]
               /\ ready' = q
               /\ UNCHANGED <<alive, releasedEv, ncyc, cbres>>

\* dictate's `finally:` entered with `exc` pending
Finally(b, exc, c, q) ==
    IF ShouldRestore(c.mp, c.ov, c.vr)
    THEN \* await log.ainfo("Restoring ...")
         /\ dpc' = [dpc EXCEPT ![b] = "fin_log"]
         /\ dexc' = [dexc EXCEPT ![b] = exc]
         /\ cyc' = [cyc EXCEPT ![b][ncyc[b]] = c]
         /\ frames' = [frames EXCEPT ![b] = 0]
         /\ ready' = q
         /\ UNCHANGED <<mpc, alive, releasedEv, ncyc, cbres>>
    ELSE Finish(b, exc, c, q)

\* `try:` get_device_info(cfg.input_device_index), then await log.ainfo.
\* When get_device_info raises, `volume_restored` is not bound yet: the
\* finally block restores nothing (its test is false, or evaluating
\* `not volume_restored` raises in turn) and dictate raises.
EnterTry(b, c, q) ==
    \E devOk \in Oks :
        IF devOk THEN Cont(b, "log_rec", c, 0, q) ELSE Finish(b, "error", c, q)

\* positions at which the coroutine awaits an external call
IoStates == {"q_running", "q_playing", "get_vol", "log_save", "mute",
             "log_muted", "log_rec", "log_trans", "log_paste", "paste",
             "fin_log", "fin_restore"}

CurCycle(b) == cyc[b][ncyc[b]]

dictFrame == <<config, faults, take, listenerVars, pressedEv, hPressed, hReleased, vol0>>

\* dictate lines 30-37: is_music_playing, get_music_app_volume, mute
DuckStep(b) ==
    /\ Running("dict", b, 0)
    /\ dpc[b] \in {"start", "q_running", "q_playing", "get_vol", "log_save",
                   "mute", "log_muted"}
    /\ LET q == Tail(ready)
           c == CurCycle(b)
       IN CASE dpc[b] = "start" ->
                 \* first step of the fn binding's callback task
                 Cont(b, "q_running", c, 0, q) /\ UNCHANGED ioRes
            [] dpc[b] = "q_running" ->
                 \* is_music_playing: `if not await is_music_app_running():
                 \* return False`
                 /\ LET c1 == [c EXCEPT !.qf = (ioRes[b] = None)]
                    IN IF IsTrue(ioRes[b]) THEN Cont(b, "q_playing", c, 0, q)
                       ELSE IF ShouldDuck(FALSE)
                       THEN Cont(b, "get_vol", c1, 0, q)
                       ELSE EnterTry(b, c1, q)
                 /\ ioRes' = [ioRes EXCEPT ![b] = None]
            [] dpc[b] = "q_playing" ->
                 \* music_playing = (player state result == "true")
                 /\ LET c1 == [c EXCEPT !.mp = IsTrue(ioRes[b]),
                                        !.qf = (@ \/ ioRes[b] = None)]
                    IN IF ShouldDuck(c1.mp)
                       THEN Cont(b, "get_vol", c1, 0, q)
                       ELSE EnterTry(b, c1, q)
                 /\ ioRes' = [ioRes EXCEPT ![b] = None]
            [] dpc[b] = "get_vol" ->
                 \* original_volume = await get_music_app_volume()
                 /\ Cont(b, "log_save", [c EXCEPT !.ov = ioRes[b]], 0, q)
                 /\ ioRes' = [ioRes EXCEPT ![b] = None]
            [] dpc[b] = "log_save" ->
                 \* await mute_music_app()
                 /\ Cont(b, "mute", [c EXCEPT !.muted = TRUE], 0, q)
                 /\ UNCHANGED ioRes
            [] dpc[b] = "mute" ->
                 Cont(b, "log_muted", c, 0, q) /\ UNCHANGED ioRes
            [] dpc[b] = "log_muted" ->
                 EnterTry(b, c, q) /\ UNCHANGED ioRes
    /\ UNCHANGED <<dictFrame, volume, readsAfterRel>>

\* record_audio's `while not stop_event.is_set()` test and what follows it:
\* one more chunk and sleep(0), or the end of the capture
CaptureLoop(b, c, fr, q) ==
    IF releasedEv[b]
    THEN \* the loop ends; record_audio's finally releases stream and instance
         LET c1 == [c EXCEPT !.belowMin = DurationBelowMin(fr * ChunkBytes),
                             !.res = "released"]
         IN /\ UNCHANGED readsAfterRel
            /\ IF LongEnough(fr * ChunkBytes)
               THEN \* dictate: `if not restore_task.done(): await restore_task`
                    Cont(b, IF c.rpc = "done" THEN "log_trans" ELSE "await_rt",
                         c1, fr, q)
               ELSE \* raise StopTask("Too short audio")
                    Finally(b, "stop", c1, q)
    ELSE \E readOk \in Oks :
           IF readOk
           THEN /\ fr < MaxChunks
                /\ Cont(b, "rec", c, fr + 1, Append(q, Item("dict", b, 0)))
                /\ readsAfterRel' =
                     [readsAfterRel EXCEPT ![b] =
                        IF LastPost(b) = 0 THEN Min(@ + 1, LatencyCap) ELSE @]
           ELSE \* stream.read raises: record_audio's finally, then dictate's
                /\ Finally(b, "error", [c EXCEPT !.res = "released"], q)
                /\ UNCHANGED readsAfterRel

\* dictate lines 44-67: create restore_task, record_audio up to its first
\* suspension (p.open may fail)
StartRecording(b) ==
    /\ Running("dict", b, 0)
    /\ dpc[b] = "log_rec"
    /\ LET k == ncyc[b]
           q == Append(Tail(ready), Item("rt", b, k))
           c == [CurCycle(b) EXCEPT !.rpc = "created"]
       IN \E openOk \in Oks :
            \* p = pyaudio.PyAudio(); stream = p.open(...), both before `try:`
            IF openOk THEN CaptureLoop(b, [c EXCEPT !.res = "open"], 0, q)
            ELSE /\ Finally(b, "error", [c EXCEPT !.res = "instance"], q)
                 /\ UNCHANGED readsAfterRel
    /\ UNCHANGED <<dictFrame, volume, ioRes>>

\* record_audio resumed after `await asyncio.sleep(0.0)`
Capture(b) ==
    /\ Running("dict", b, 0)
    /\ dpc[b] = "rec"
    /\ CaptureLoop(b, CurCycle(b), frames[b], Tail(ready))
    /\ UNCHANGED <<dictFrame, volume, ioRes>>

\* dictate lines 69-77: transcription and pasting
Deliver(b) ==
    /\ Running("dict", b, 0)
    /\ dpc[b] \in {"await_rt", "log_trans", "trans_sleep", "log_paste", "paste"}
    /\ LET q == Tail(ready)
           c == CurCycle(b)
           fr == frames[b]
       IN CASE dpc[b] = "await_rt" ->
                 \* restore_task finished; await log.ainfo("Transcribing ...")
                 Cont(b, "log_trans", c, fr, q)
            [] dpc[b] = "log_trans" ->
                 \* transcribe(wave): model.transcribe, then sleep(0)
                 \E ok \in Oks :
                   LET c1 == [c EXCEPT !.tr = IF ok THEN "ok" ELSE "raised"]
                   IN IF Proceeds(ok)
                      THEN Cont(b, "trans_sleep", c1, fr,
                                Append(q, Item("dict", b, 0)))
                      ELSE Finally(b, "error", c1, q)
            [] dpc[b] = "trans_sleep" ->
                 \* text returned; await log.ainfo("Pasting: ...")
                 Cont(b, "log_paste", c, fr, q)
            [] dpc[b] = "log_paste" ->
                 \* await clipboard.paste_text(text)
                 Cont(b, "paste", [c EXCEPT !.pasted = TRUE], fr, q)
            [] dpc[b] = "paste" ->
                 \E ok \in Oks :
                   Finally(b, IF ok THEN "none" ELSE "error", c, q)
    /\ UNCHANGED <<dictFrame, volume, ioRes, readsAfterRel>>

\* dictate lines 78-82: the restore of the finally block
FinallyRestore(b) ==
    /\ Running("dict", b, 0)
    /\ dpc[b] \in {"fin_log", "fin_restore"}
    /\ LET q == Tail(ready)
           c == CurCycle(b)
       IN IF dpc[b] = "fin_log"
          THEN \* await restore_music_app_volume(original_volume)
               Cont(b, "fin_restore", [c EXCEPT !.rc = @ + 1], 0, q)
          ELSE Finish(b, dexc[b], c, q)
    /\ UNCHANGED <<dictFrame, volume, ioRes, readsAfterRel>>

\* The external call a dictate coroutine awaits completes: an osascript
\* subprocess (_run_osascript: a non-zero exit or an exception gives None),
\* the logging executor, or the clipboard.  The coroutine becomes ready.
DictIoDone(b) ==
    /\ alive /\ b \in config
    /\ dpc[b] \in IoStates
    /\ ~InQueue(ready, Item("dict", b, 0))
    /\ ready' = Append(ready, Item("dict", b, 0))
    /\ \E ok \in Oks, r \in OsaResults :
         /\ ioRes' = [ioRes EXCEPT ![b] =
                        IF dpc[b] = "get_vol" /\ ok THEN volume
                        ELSE IF dpc[b] \in {"q_running", "q_playing"} THEN r
                        ELSE None]
         /\ (dpc[b] \in {"q_running", "q_playing"}) => ok
         /\ (dpc[b] \notin {"q_running", "q_playing"}) => r = 1
         /\ volume' = IF ok /\ dpc[b] = "mute" THEN ClampVolume(MutedVolume)
                      ELSE IF ok /\ dpc[b] = "fin_restore"
                      THEN ClampVolume(CurCycle(b).ov)
                      ELSE volume
         /\ cyc' = [cyc EXCEPT ![b][ncyc[b]].ducked =
                        IF dpc[b] = "mute" THEN ok ELSE @]
         /\ (dpc[b] \notin {"get_vol", "mute", "fin_restore"}) => ok
    /\ UNCHANGED <<config, faults, take, listenerVars, eventVars, mpc, dpc, dexc, cbres,
                   ncyc, frames, alive, vol0, readsAfterRel>>

\* ----------------------------------------- restore_task (on_key_released)
RtFrame == <<config, faults, take, listenerVars, eventVars, mpc, dexc, cbres, ncyc, frames,
             ioRes, volume, alive, vol0, readsAfterRel>>

\* the task returns True: it is done, and dictate is woken if it is
\* suspended in `await restore_task`
RtDone(b, k, c, q) ==
    /\ cyc' = [cyc EXCEPT ![b][k] = [c EXCEPT !.rpc = "done"]]
    /\ ready' = IF dpc[b] = "await_rt" /\ ncyc[b] = k
                   /\ ~InQueue(q, Item("dict", b, 0))
                THEN Append(q, Item("dict", b, 0)) ELSE q

\* the test after `await key_released.wait()`
RtReact(b, k, c, q) ==
    IF ShouldRestore(c.mp, c.ov, c.vr)
    THEN \* await log.ainfo("Restoring ...")
         /\ cyc' = [cyc EXCEPT ![b][k] = [c EXCEPT !.rpc = "log"]]
         /\ ready' = q
    ELSE RtDone(b, k, c, q)

RestoreTask(b, k) ==
    /\ Running("rt", b, k)
    /\ LET q == Tail(ready)
           c == cyc[b][k]
       IN CASE c.rpc = "created" ->
                 IF releasedEv[b] THEN RtReact(b, k, c, q)
                 ELSE /\ cyc' = [cyc EXCEPT ![b][k] = [c EXCEPT !.rpc = "wait"]]
                      /\ ready' = q
            [] c.rpc = "wait" -> RtReact(b, k, c, q)
            [] c.rpc = "log" ->
                 \* await restore_music_app_volume(original_volume)
                 /\ cyc' = [cyc EXCEPT ![b][k] =
                              [c EXCEPT !.rpc = "restore", !.rc = @ + 1]]
                 /\ ready' = q
            [] c.rpc = "restore" ->
                 \* volume_restored = True
                 RtDone(b, k, [c EXCEPT !.vr = TRUE], q)
    /\ UNCHANGED <<RtFrame, dpc>>

\* the external call a restore task awaits completes
RtIoDone(b, k) ==
    /\ alive /\ b \in config
    /\ cyc[b][k].rpc \in {"log", "restore"}
    /\ ~InQueue(ready, Item("rt", b, k))
    /\ ready' = Append(ready, Item("rt", b, k))
    /\ \E ok \in Oks :
         /\ volume' = IF ok /\ cyc[b][k].rpc = "restore"
                      THEN ClampVolume(cyc[b][k].ov) ELSE volume
         /\ cyc[b][k].rpc = "log" => ok
    /\ UNCHANGED <<config, faults, take, listenerVars, eventVars, mpc, dictVars, alive,
                   vol0, readsAfterRel>>

\* ------------------------------------------------------------------- Next
Next ==
    \/ \E b \in Combos, key \in AllKeys : HookPress(b, key)
    \/ \E b \in Combos, key \in AllKeys : HookRelease(b, key)
    \/ FnKeyToggle
    \/ Poll
    \/ \E b \in Combos, v \in {0, 1} : ApplyLatch(b, v)
    \/ \E v \in {0, 1} : FnChange(v)
    \/ \E v \in {0, 1} : FnLatch(v)
    \/ \E b \in Combos : MainCombo(b)
    \/ MainFn
    \/ \E b \in Bindings : DuckStep(b)
    \/ \E b \in Bindings : StartRecording(b)
    \/ \E b \in Bindings : Capture(b)
    \/ \E b \in Bindings : Deliver(b)
    \/ \E b \in Bindings : FinallyRestore(b)
    \/ \E b \in Bindings : DictIoDone(b)
    \/ \E b \in Bindings, k \in Cycles : RestoreTask(b, k)
    \/ \E b \in Bindings, k \in Cycles : RtIoDone(b, k)

Init == InitIn(Configs, TRUE)
Spec == Init /\ [][Next]_vars

\* two combination bindings registered with AsyncGlobalHotKeys, in runs in
\* which no external call fails
InitTwo == InitIn(TwoConfigs, FALSE)
NextTwo ==
    \/ \E b \in Combos, key \in AllKeys : HookPress(b, key)
    \/ \E b \in Combos, key \in AllKeys : HookRelease(b, key)
    \/ \E b \in Combos, v \in {0, 1} : ApplyLatch(b, v)
    \/ \E b \in Combos : MainCombo(b)
    \/ \E b \in Combos : DuckStep(b)
    \/ \E b \in Combos : StartRecording(b)
    \/ \E b \in Combos : Capture(b)
    \/ \E b \in Combos : Deliver(b)
    \/ \E b \in Combos : FinallyRestore(b)
    \/ \E b \in Combos : DictIoDone(b)
    \/ \E b \in Combos, k \in Cycles : RestoreTask(b, k)
    \/ \E b \in Combos, k \in Cycles : RtIoDone(b, k)
SpecTwo == InitTwo /\ [][NextTwo]_vars

\* one binding, in runs in which no external call fails
InitOk == InitIn(Configs, FALSE)
SpecOk == InitOk /\ [][Next]_vars

\* the event loop never leaves a ready callback unrun
LoopStep ==
    \/ \E b \in Combos, v \in {0, 1} : ApplyLatch(b, v)
    \/ \E v \in {0, 1} : FnChange(v) \/ FnLatch(v)
    \/ \E b \in Combos : MainCombo(b)
    \/ MainFn
    \/ \E b \in Bindings :
          DuckStep(b) \/ StartRecording(b) \/ Capture(b) \/ Deliver(b)
          \/ FinallyRestore(b)
    \/ \E b \in Bindings, k \in Cycles : RestoreTask(b, k)
SpecLive == Init /\ [][Next]_vars /\ WF_vars(LoopStep)

\* record_audio's length test applied to a sample buffer of any byte length
\* around the threshold
MinBytes == MinSeconds * SAMPLE_RATE * SAMPLE_WIDTH
Lens == (MinBytes - MaxLenSpan)..(MinBytes + MaxLenSpan)
InitTake ==
    /\ InitBase({{"k1"}}, FALSE)
    /\ take \in [len : Lens, verdict : {"none"}]
\* `if infer_time(samples) > 1.0: return convert(...)`, `else: raise StopTask`
JudgeTake ==
    /\ take.verdict = "none"
    /\ take' = [take EXCEPT !.verdict =
                   IF LongEnough(take.len) THEN "returned" ELSE "rejected"]
    /\ UNCHANGED <<config, faults, listenerVars, eventVars, ready, mpc,
                   dictVars, volume, alive, vol0, readsAfterRel>>
NextTake == JudgeTake
SpecTake == InitTake /\ [][NextTake]_vars

\* ================================================================= claims
Started(b) == {k \in Cycles : k <= ncyc[b]}
Ended(c) == c.out \in {"ok", "rejected", "failed"}
LatchPending(b) == \E i \in 1..Len(ready) : ready[i][1] = "latch" /\ ready[i][2] = b

\* C1: in every dictation cycle restore_music_app_volume is invoked at most
\* once; the release-reaction task and the finally block never both restore.
C1_RestoreAtMostOnce ==
    \A b \in config : \A k \in Started(b) : cyc[b][k].rc <= 1

\* C2: in every cycle in which ducking occurred (the target was playing and
\* its volume was muted), restore has been invoked when dictate is back in
\* the binding's loop, on every exit path.
C2_RestoredBeforeIdle ==
    \A b \in config : \A k \in Started(b) :
        (Ended(cyc[b][k]) /\ cyc[b][k].mp /\ cyc[b][k].ducked) => cyc[b][k].rc >= 1

\* C3: a recording whose computed duration is below 1.0 s ends the cycle as
\* a rejection (StopTask); the transcriber and the clipboard paste are never
\* invoked in that cycle.
C3_ShortTakeRejected ==
    \A b \in config : \A k \in Started(b) :
        cyc[b][k].belowMin =>
            /\ cyc[b][k].tr = "no"
            /\ ~cyc[b][k].pasted
            /\ cyc[b][k].out \in {"running", "rejected"}
            /\ cyc[b][k].out = "running" =>
                  (k = ncyc[b] /\ dpc[b] \in {"fin_log", "fin_restore"}
                   /\ dexc[b] = "stop")

\* a short take was captured while ducked and its cycle ended
C3_Witness ==
    \E b \in config : \E k \in Started(b) :
        cyc[b][k].belowMin /\ cyc[b][k].ducked /\ cyc[b][k].out = "rejected"

\* C4: no error raised inside a dictation cycle terminates the binding's
\* loop: after a failed cycle the loop is still running.
C4_ErrorKeepsLoop ==
    \A b \in config :
        (\E k \in Started(b) : cyc[b][k].out = "failed") =>
            (alive /\ mpc[b] # "dead")

\* a cycle's duck/restore window: muted and no restore invoked yet
InWindow(b) ==
    /\ ncyc[b] > 0
    /\ cyc[b][ncyc[b]].out = "running"
    /\ cyc[b][ncyc[b]].ducked
    /\ cyc[b][ncyc[b]].rc = 0
Quiescent ==
    /\ ready = <<>>
    /\ \A b \in config : dpc[b] = "idle"
    /\ \A b \in config : \A k \in Started(b) : cyc[b][k].rpc = "done"

\* C5: the duck/restore windows of two bindings' concurrently active cycles
\* never interleave, and the volume after both cycles end equals the volume
\* before the first press.
C5_DuckWindowsSerialized ==
    /\ \A a \in config : \A b \in config :
          (a # b) => ~(InWindow(a) /\ InWindow(b))
    /\ Quiescent => volume = vol0

\* C6: a cycle in which the target was not playing at duck time performs no
\* volume mutation: neither mute nor restore is invoked.
C6_NotPlayingNoMutation ==
    \A b \in config : \A k \in Started(b) :
        ~cyc[b][k].mp =>
            /\ ~cyc[b][k].muted
            /\ cyc[b][k].rc = 0
            /\ (k = ncyc[b] => dpc[b] \notin {"get_vol", "log_save", "mute",
                                               "log_muted", "fin_log", "fin_restore"})
            /\ cyc[b][k].rpc \notin {"log", "restore"}

\* a cycle found the target not playing, was released and delivered its text
C6_Witness ==
    \E b \in config : \E k \in Started(b) :
        ~cyc[b][k].mp /\ cyc[b][k].out = "ok" /\ cyc[b][k].rpc = "done"

\* C7: once a listener has posted a release, the capture loop completes at
\* most one further chunk read before it stops.
C7_StopWithinOneChunk ==
    \A b \in config : readsAfterRel[b] <= 1

\* C8: for a combination binding, once the posted press and its release have
\* both been applied, the cycle capturing for that press sees the release
\* event set (the loop's own clear() never erases a posted release).
C8_ReleaseSeen ==
    \A b \in config \cap Combos :
        (dpc[b] = "rec" /\ LastPost(b) = 0 /\ ~LatchPending(b)) => releasedEv[b]

\* C9: in every cycle that ducked and reached the transcription step,
\* restore has been invoked before the transcribe call completes, and when
\* transcribe raises, restore has already completed.
C9_RestoreBeforeTranscribeDone ==
    \A b \in config : \A k \in Started(b) :
        (cyc[b][k].mp /\ cyc[b][k].ducked /\ cyc[b][k].tr # "no") =>
            /\ cyc[b][k].rc >= 1
            /\ cyc[b][k].tr = "raised" => cyc[b][k].vr

\* C10: the transitions a listener posts for one binding strictly alternate
\* press, release, press, ..., starting with a press.
C10_PostsAlternate ==
    \A b \in config : \A i \in 1..Len(posts[b]) : posts[b][i] = i % 2

\* a two-key combination was pressed twice, and after the release posted for
\* the second gesture the other key was released too, posting nothing
C10_Witness ==
    /\ posts["k1"] = <<1, 0, 1, 0>>
    /\ hkState["k1"] = {}

\* C11: every capture resource record_audio acquired (the PyAudio instance,
\* the input stream) is released before record_audio exits, on every exit
\* path: acquired and unreleased resources exist only while it captures.
C11_ResourcesReleased ==
    \A b \in config : \A k \in Started(b) :
        cyc[b][k].res \in {"instance", "open"} =>
            (k = ncyc[b] /\ cyc[b][k].out = "running" /\ dpc[b] = "rec")

\* the loop of a binding stopped only because one of its cycles failed
LoopDiesOnlyByFailure ==
    \A b \in config :
        (mpc[b] = "dead" \/ ~alive) =>
            \E k \in Started(b) : cyc[b][k].out = "failed"
\* the listener saw the binding go down and has not seen it go up
Held(b) == IF b = "fn" THEN lastState ELSE activated[b]
\* the loop is suspended in its wait for a press while the binding is held
LoopWaiting(b) == alive /\ b \in config /\ mpc[b] = "wait_press" /\ Held(b)
\* the loop is past its wait for a press: it has started the callback (or,
\* for the fn binding, has ended on the callback's exception)
CycleStarted(b) == mpc[b] # "wait_press"

\* C12: a cycle that ends by success or by short-take rejection leaves the
\* binding's loop running, and whenever the loop is waiting for a press
\* while the binding is held, a new cycle is eventually started.
C12_LoopRepeats ==
    /\ []LoopDiesOnlyByFailure
    /\ \A b \in UNION Configs : LoopWaiting(b) ~> CycleStarted(b)

\* a second cycle is capturing after the first one was rejected as too short
C12_Witness ==
    \E b \in config :
        /\ ncyc[b] = 2 /\ dpc[b] = "rec" /\ alive
        /\ cyc[b][1].out = "rejected"

\* C13: in every reachable state of a hotkey source, the initial one
\* included, the release latch is not set while the press latch is unset.
C13_ReleaseImpliesPress ==
    /\ \A b \in config : releasedEv[b] => pressedEv[b]
    /\ "fn" \in config => (hReleased => hPressed)

\* C14: with one binding, the target playing and every external call
\* succeeding, a cycle mutes the volume to 0 before capture starts, writes
\* the saved volume back on release before transcription is invoked, and
\* leaves the volume equal to the saved one when the cycle is over.
C14_DuckRestoreRoundTrip ==
    \A b \in config : \A k \in Started(b) :
        LET c == cyc[b][k]
            cur == k = ncyc[b]
        IN (c.mp /\ c.out \in {"running", "ok", "rejected"}) =>
            /\ (cur /\ k = 1 /\ dpc[b] \in {"log_muted", "log_rec", "rec"}
                    /\ c.rc = 0) => volume = MutedVolume
            /\ (cur /\ dpc[b] = "rec") => (c.ducked /\ c.ov = vol0)
            /\ c.tr # "no" => (~c.belowMin /\ c.vr /\ c.rc = 1)
            /\ (cur /\ c.out = "ok") =>
                  (c.tr = "ok" /\ c.ov = vol0 /\ volume = c.ov)

\* a ducked cycle delivered its text and the volume is the initial one again
C14_Witness ==
    \E b \in config : \E k \in Started(b) :
        /\ k = ncyc[b] /\ cyc[b][k].mp /\ cyc[b][k].ducked
        /\ cyc[b][k].out = "ok" /\ cyc[b][k].vr /\ volume = vol0
        /\ ~faults

\* C15: no cycle mutes the volume while its saved volume is absent
\* (get_music_app_volume returned None).
C15_MuteOnlyAfterSaved ==
    \A b \in config : \A k \in Started(b) :
        cyc[b][k].muted => cyc[b][k].ov # None

\* positions of dictate before its try block
DuckPcs == {"start", "q_running", "q_playing", "get_vol", "log_save", "mute",
            "log_muted"}

\* C16: a cycle in which a remote query failed counts the target as not
\* playing: it skips ducking (no mute, no restore), and goes on to the
\* capture step without an error from the volume layer.
C16_FailedQueryNotPlaying ==
    \A b \in config : \A k \in Started(b) :
        LET c == cyc[b][k]
        IN c.qf =>
            /\ ~c.mp /\ ~c.muted /\ ~c.ducked /\ c.ov = None /\ c.rc = 0
            /\ c.rpc \notin {"log", "restore"}
            /\ (k = ncyc[b] /\ c.out = "running") =>
                  dpc[b] \notin DuckPcs \cup {"fin_log", "fin_restore"}

\* a cycle whose query failed captured, transcribed and pasted
C16_Witness ==
    \E b \in config : \E k \in Started(b) :
        cyc[b][k].qf /\ cyc[b][k].out = "ok" /\ cyc[b][k].pasted

C18_ListenersOnlyPost ==
    [][/\ (listenerVars' # listenerVars) =>
             (eventVars' = eventVars /\ dictVars' = dictVars /\ mpc' = mpc
              /\ volume' = volume)
       /\ (eventVars' # eventVars) =>
             (listenerVars' = listenerVars /\ ready # <<>>
              /\ Head(ready)[1] \in {"latch", "fnlatch", "main", "dict"})]_vars

\* a press was posted by the listener and its callback has not run yet
C18_Witness ==
    \E b \in config :
        /\ LastPost(b) = 1 /\ Pending(b) > 0
        /\ ~pressedEv[b] /\ ~hPressed /\ ncyc[b] = 0

\* C19: within a cycle the steps occur in the order duck, capture,
\* transcription, delivery, each at most once: no capture before the duck
\* step finished, transcribe only after record_audio returned a buffer,
\* paste only after transcribe returned, none after a failed transcription.
C19_StepOrder ==
    \A b \in config : \A k \in Started(b) :
        LET c == cyc[b][k]
            cur == k = ncyc[b] /\ c.out = "running"
        IN /\ (cur /\ dpc[b] \in DuckPcs) =>
                 (c.rpc = "none" /\ c.res = "none" /\ c.tr = "no" /\ ~c.pasted)
           /\ (c.res # "none" /\ c.mp) => c.muted
           /\ c.tr # "no" =>
                 /\ c.res = "released" /\ ~c.belowMin
                 /\ cur => dpc[b] \notin DuckPcs \cup {"log_rec", "rec",
                                                       "await_rt", "log_trans"}
           /\ c.pasted =>
                 /\ c.tr = "ok"
                 /\ cur => dpc[b] \notin DuckPcs \cup {"log_rec", "rec",
                               "await_rt", "log_trans", "trans_sleep", "log_paste"}

\* a ducked cycle captured, transcribed and pasted
C19_Witness ==
    \E b \in config : \E k \in Started(b) :
        /\ cyc[b][k].mp /\ cyc[b][k].muted /\ cyc[b][k].res = "released"
        /\ cyc[b][k].tr = "ok" /\ cyc[b][k].pasted /\ cyc[b][k].out = "ok"

\* C20: when dictate has returned or raised (and the program goes on), its
\* restore_task is finished: no restore of that cycle can happen later.
C20_NoLateRestore ==
    \A b \in config : \A k \in Started(b) :
        (alive /\ Ended(cyc[b][k])) => cyc[b][k].rpc \in {"none", "done"}

\* C21: with one binding, the target playing and every external call
\* succeeding, the volume stays at the muted value while a ducked cycle's
\* capture loop is reading chunks and its release has not been observed.
C21_MutedDuringCapture ==
    \A b \in config :
        (/\ dpc[b] = "rec" /\ ~releasedEv[b]
         /\ CurCycle(b).ducked /\ CurCycle(b).rc = 0) => volume = MutedVolume

\* the invocations of the dictation callback of binding b that are active
Active(b) == {k \in Started(b) : cyc[b][k].out = "running"}

\* C22: cycles of one binding never overlap: at most one invocation of the
\* dictation callback is active at any time.
C22_NoOverlap ==
    \A b \in config : Cardinality(Active(b)) <= 1

\* the fn binding runs its second cycle after its first one has ended
C22_Witness ==
    /\ ncyc["fn"] = 2 /\ Active("fn") = {2}
    /\ dpc["fn"] \notin {"idle", "start"}

\* C23: the press and release events of a hotkey source are never both
\* set; the fn handler has exactly one of them set at all times, and a
\* combination has exactly one set whenever no posted transition is pending.
C23_EventsComplementary ==
    /\ \A b \in config : ~(pressedEv[b] /\ releasedEv[b])
    /\ ~(hPressed /\ hReleased)
    /\ "fn" \in config => (hPressed \/ hReleased)
    /\ \A b \in config \cap Combos :
          ~LatchPending(b) => (pressedEv[b] \/ releasedEv[b])

\* the press event the loop of binding b waits on
PressEvent(b) == IF b = "fn" THEN hPressed ELSE pressedEv[b]

\* C24: a cycle that starts in the step in which the loop comes back from
\* the previous one (without suspending in its wait for a press) starts
\* only with the press event set: a gesture whose press and release were
\* both processed during the previous cycle starts nothing.
C24_NoStaleReplay ==
    [][\A b \in config :
          (ncyc'[b] # ncyc[b] /\ mpc[b] # "wait_press") => PressEvent(b)]_vars

\* two whole gestures were posted and processed, one cycle ran, and the loop
\* is suspended in its wait for a press with nothing left to run
C24_Witness ==
    \E b \in config :
        /\ posts[b] = <<1, 0, 1, 0>> /\ ncyc[b] = 1 /\ Ended(cyc[b][1])
        /\ mpc[b] = "wait_press" /\ ready = <<>> /\ alive

====
